---- MODULE Spec2Model ----
(***************************************************************************)
(* Model of the LDAP authentication plugin (class AuthLdap): configure,    *)
(* test and _authenticate, together with the directory client the plugin   *)
(* drives (connect, bind, search, unbind).                                 *)
(*                                                                         *)
(* JavaScript strings that the code inspects character by character (the   *)
(* filter template and the username) are sequences of one-character        *)
(* strings.  An optional value is None (undefined) or Some(v).             *)
(***************************************************************************)
EXTENDS Integers, Sequences, FiniteSets, TLC

\* ------------------------------------------------------------------ bounds
NumCalls == 2          \* authenticate / test calls in one behaviour
MaxConfigures == 2     \* configure calls in one behaviour
MaxEntries == 2        \* searchEntry events delivered to one search
MaxSegments == 3       \* literal and placeholder segments of a filter template

\* ---------------------------------------------------------------- options
None == <<>>
Some(v) == <<v>>
IsSome(o) == o # <<>>
Get(o) == o[1]

\* ----------------------------------------------------------------- strings
S_name == <<"n", "a", "m", "e">>
S_uidFilter == <<"(", "u", "i", "d", "=", "{", "{", "n", "a", "m", "e", "}", "}", ")">>
S_cnFilter == <<"(", "c", "n", "=", "{", "{", "n", "a", "m", "e", "}", "}", ")">>
S_groupFilter == <<"(", "g", "=", "{", "{", "g", "r", "o", "u", "p", "}", "}", ")">>

S_group == <<"g", "r", "o", "u", "p">>
S_constructor == <<"c", "o", "n", "s", "t", "r", "u", "c", "t", "o", "r">>
\* String(Object): 'function Object() { [native code] }'
S_functionObject ==
  <<"f", "u", "n", "c", "t", "i", "o", "n", " ", "O", "b", "j", "e", "c", "t",
    "(", ")", " ", "{", " ", "[", "n", "a", "t", "i", "v", "e", " ", "c", "o",
    "d", "e", "]", " ", "}">>

\* const DEFAULTS = { checkCertificate: true, filter: '(uid={{name}})' }
DEFAULTS == [checkCertificate |-> TRUE, filter |-> S_uidFilter]

\* maxConnections: 5 in the options handed to createClient
maxConnections == 5

\* escape of ldapjs/lib/filters/escape: one character
escapeChar(ch) ==
  CASE ch = "*" -> <<"\\", "2", "a">>
    [] ch = "(" -> <<"\\", "2", "8">>
    [] ch = ")" -> <<"\\", "2", "9">>
    [] ch = "\\" -> <<"\\", "5", "c">>
    [] OTHER -> <<ch>>

RECURSIVE escape(_)
escape(value) ==
  IF value = <<>> THEN <<>>
  ELSE escapeChar(Head(value)) \o escape(Tail(value))

\* VAR_RE = /\{\{([^}]+)\}\}/g tried at position i of filter: 0 when it does
\* not match there, else the index of the last character of the match.
VarReMatchEnd(filter, i) ==
  IF i + 1 > Len(filter) \/ filter[i] # "{" \/ filter[i + 1] # "{" THEN 0
  ELSE LET closing == {j \in (i + 2)..Len(filter) : filter[j] = "}"}
       IN IF closing = {} THEN 0
          ELSE LET j == CHOOSE x \in closing : \A y \in closing : x <= y
               IN IF j > i + 2 /\ j + 1 <= Len(filter) /\ filter[j + 1] = "}"
                  THEN j + 1
                  ELSE 0

\* What an object literal inherits from Object.prototype, as the text that
\* replace() makes of it (of the inherited properties, constructor stands
\* for all): vars[name] is not undefined for these names.
ObjectPrototype == [n \in {S_constructor} |-> S_functionObject]

\* filter.replace(VAR_RE, callback) from position i on.  The result is
\* [threw |-> TRUE, name |-> n] when the callback throws 'invalid variable',
\* else [threw |-> FALSE, value |-> the replaced text].  escape returns what
\* is not a string unchanged, and replace() converts it to a string.
RECURSIVE evalFilterFrom(_, _, _)
evalFilterFrom(filter, vars, i) ==
  IF i > Len(filter) THEN [threw |-> FALSE, value |-> <<>>]
  ELSE LET m == VarReMatchEnd(filter, i) IN
    IF m = 0
    THEN LET rest == evalFilterFrom(filter, vars, i + 1) IN
         IF rest.threw THEN rest
         ELSE [threw |-> FALSE, value |-> <<filter[i]>> \o rest.value]
    ELSE LET name == SubSeq(filter, i + 2, m - 2) IN
         IF name \notin DOMAIN vars /\ name \notin DOMAIN ObjectPrototype
         THEN [threw |-> TRUE, name |-> name]
         ELSE LET rest == evalFilterFrom(filter, vars, m + 1)
                  text == IF name \in DOMAIN vars THEN escape(vars[name])
                          ELSE ObjectPrototype[name]
              IN IF rest.threw THEN rest
                 ELSE [threw |-> FALSE, value |-> text \o rest.value]

\* evalFilter with VAR_RE lacking the g flag: only the first match is replaced
evalFilter_FirstOnly(filter, vars) ==
  LET matches == {i \in 1..Len(filter) : VarReMatchEnd(filter, i) # 0}
  IN IF matches = {} THEN [threw |-> FALSE, value |-> filter]
     ELSE LET i == CHOOSE x \in matches : \A y \in matches : x <= y
              m == VarReMatchEnd(filter, i)
              name == SubSeq(filter, i + 2, m - 2)
          IN IF name \notin DOMAIN vars /\ name \notin DOMAIN ObjectPrototype
             THEN [threw |-> TRUE, name |-> name]
             ELSE [threw |-> FALSE,
                   value |-> SubSeq(filter, 1, i - 1)
                             \o (IF name \in DOMAIN vars THEN escape(vars[name])
                                 ELSE ObjectPrototype[name])
                             \o SubSeq(filter, m + 1, Len(filter))]

evalFilter(filter, vars) == evalFilterFrom(filter, vars, 1)

\* ------------------------------------------------------------------ inputs
\* Configuration objects handed to configure (already validated against
\* configurationSchema: uri and base present, bind has dn and password).
ConfA ==
  [uri |-> "ldap://a", base |-> "dc=a",
   bind |-> Some([dn |-> "svcA", password |-> "pA"]),
   filter |-> None, checkCertificate |-> None, certificateAuthorities |-> None]
ConfB ==
  [uri |-> "ldap://b", base |-> "dc=b",
   bind |-> None,
   filter |-> Some(S_cnFilter), checkCertificate |-> Some(FALSE),
   certificateAuthorities |-> None]
ConfC ==
  [uri |-> "ldaps://c", base |-> "dc=c",
   bind |-> Some([dn |-> "svcC", password |-> "pC"]),
   filter |-> Some(S_groupFilter), checkCertificate |-> Some(TRUE),
   certificateAuthorities |-> Some(<<"ca1.pem", "ca2.pem">>)]
Confs == {ConfA, ConfB, ConfC}

Usernames == {None, Some(<<"a", "*">>)}
Passwords == {None, Some(""), Some("secret")}
DNs == {"uid=a1", "uid=a2"}

Calls == 1..NumCalls
Cfgs == 1..MaxConfigures

\* ------------------------------------------------------------------- state
VARIABLES
  this_clientOpts,    \* this._clientOpts: 0 (undefined) or a reference into heap
  this_credentials,   \* this._credentials
  this_searchBase,    \* this._searchBase
  this_searchFilter,  \* this._searchFilter
  heap,               \* the clientOpts objects, one per configure call
  cfg,                \* the configure calls: position and argument
  call                \* the test / _authenticate calls

vars == <<this_clientOpts, this_credentials, this_searchBase,
          this_searchFilter, heap, cfg, call>>

Pending == [kind |-> "pending"]

Init ==
  /\ this_clientOpts = 0
  /\ this_credentials = None
  /\ this_searchBase = None
  /\ this_searchFilter = None
  /\ heap = [k \in Cfgs |-> None]
  /\ cfg = [k \in Cfgs |-> [pc |-> "idle", conf |-> None]]
  /\ call = [c \in Calls |->
       [pc |-> "idle", username |-> None,
        password |-> None, client |-> 0, entries |-> <<>>,
        status |-> None, idx |-> 0,
        ops |-> <<>>, unbinds |-> 0, result |-> Pending,
        testResult |-> Pending,
        atStart |-> [clientOpts |-> 0, credentials |-> None,
                     searchBase |-> None, searchFilter |-> None]]]

\* --------------------------------------------------------------- configure
\* checkCertificate = DEFAULTS.checkCertificate in the destructuring
checkCertificateOf(conf) ==
  IF IsSome(conf.checkCertificate) THEN Get(conf.checkCertificate)
  ELSE DEFAULTS.checkCertificate

\* filter: searchFilter = DEFAULTS.filter in the destructuring
searchFilterOf(conf) ==
  IF IsSome(conf.filter) THEN Get(conf.filter) ELSE DEFAULTS.filter

\* newClientOpts with rejectUnauthorized set to the negation of checkCertificate
newClientOpts_Inverted(conf) ==
  [url |-> conf.uri,
   maxConnections |-> maxConnections,
   bindDN |-> IF IsSome(conf.bind) THEN Some(Get(conf.bind).dn) ELSE None,
   bindCredentials |->
     IF IsSome(conf.bind) THEN Some(Get(conf.bind).password) ELSE None,
   tlsOptions |-> [rejectUnauthorized |-> ~checkCertificateOf(conf),
                   ca |-> None]]

\* the clientOpts object as it is when configure reaches the CA files
newClientOpts(conf) ==
  [url |-> conf.uri,
   maxConnections |-> maxConnections,
   bindDN |-> IF IsSome(conf.bind) THEN Some(Get(conf.bind).dn) ELSE None,
   bindCredentials |->
     IF IsSome(conf.bind) THEN Some(Get(conf.bind).password) ELSE None,
   tlsOptions |-> [rejectUnauthorized |-> checkCertificateOf(conf),
                   ca |-> None]]

\* the three assignments that end configure
StoreSearchSettings(conf) ==
  /\ this_credentials' = conf.bind
  /\ this_searchBase' = Some(conf.base)
  /\ this_searchFilter' = Some(searchFilterOf(conf))

\* configure(conf) up to its first suspension: the whole call when there is
\* no certificateAuthorities, else up to the await of the file reads.
ConfigureStart(k, conf) ==
  /\ cfg[k].pc = "idle"
  /\ \A j \in Cfgs : j < k => cfg[j].pc # "idle"
  /\ heap' = [heap EXCEPT ![k] = Some(newClientOpts(conf))]
  /\ this_clientOpts' = k
  /\ IF IsSome(conf.certificateAuthorities)
     THEN /\ cfg' = [cfg EXCEPT ![k] = [pc |-> "reading", conf |-> Some(conf)]]
          /\ UNCHANGED <<this_credentials, this_searchBase, this_searchFilter>>
     ELSE /\ cfg' = [cfg EXCEPT ![k] = [pc |-> "done", conf |-> Some(conf)]]
          /\ StoreSearchSettings(conf)
  /\ UNCHANGED call

\* readFile(path): fs.readFile called without a callback.  Where the runtime
\* accepts that, it returns undefined (the content read is dropped); where it
\* does not, it throws and configure rejects (ConfigureReadFail).
readFile(path) == None

\* the await of Promise.all resolves: tlsOptions.ca is set, on the object this
\* call created, to what the readFile calls returned, then the search settings
\* are stored
ConfigureRead(k) ==
  /\ cfg[k].pc = "reading"
  /\ LET conf == Get(cfg[k].conf)
         o == Get(heap[k])
     IN /\ heap' = [heap EXCEPT ![k] =
               Some([o EXCEPT !.tlsOptions.ca =
                      Some([i \in DOMAIN Get(conf.certificateAuthorities) |->
                              readFile(Get(conf.certificateAuthorities)[i])])])]
        /\ StoreSearchSettings(conf)
  /\ cfg' = [cfg EXCEPT ![k].pc = "done"]
  /\ UNCHANGED <<this_clientOpts, call>>

\* reading the files failed: configure rejects, after this._clientOpts was
\* replaced and before the search settings are stored
ConfigureReadFail(k) ==
  /\ cfg[k].pc = "reading"
  /\ cfg' = [cfg EXCEPT ![k].pc = "failed"]
  /\ UNCHANGED <<this_clientOpts, this_credentials, this_searchBase,
                 this_searchFilter, heap, call>>

\* ------------------------------------------------- test and _authenticate
ReturnNull == [kind |-> "null"]
ReturnUser(username) == [kind |-> "value", username |-> username]
Thrown(error) == [kind |-> "error", error |-> error]

\* search status codes carried by the 'end' event: success and noSuchObject
Statuses == {0, 32}
\* ways a bind can fail: rejected by the server, or the transport broke
BindFailures == {"rejected", "transport"}

\* testThen without the throw on a null result
testThen_NoThrow(result) ==
  IF result.kind = "error" THEN result ELSE [kind |-> "resolved"]

\* the then-callback of test, applied to the outcome of _authenticate: what
\* the promise returned by test settles with
testThen(result) ==
  IF result.kind = "null"
  THEN Thrown("could not authenticate user")
  ELSE IF result.kind = "error"
  THEN result
  ELSE [kind |-> "resolved"]

\* the promise of _authenticate settles with outcome, and with it the promise
\* test chained on it
Settle(r, outcome) ==
  [r EXCEPT !.result = outcome,
            !.testResult = testThen(outcome),
            !.pc = "done"]

\* Finally with the unbind after the try block instead of in a finally clause:
\* a thrown error skips it
Finally_AfterTry(r, outcome) ==
  IF outcome.kind = "error"
  THEN Settle(r, outcome)
  ELSE Settle([r EXCEPT !.ops = Append(@, [op |-> "unbind"]),
                        !.unbinds = @ + 1], outcome)

\* finally { client.unbind() }, then the promise settles with outcome
Finally(r, outcome) ==
  Settle([r EXCEPT !.ops = Append(@, [op |-> "unbind"]),
                   !.unbinds = @ + 1], outcome)

\* the callback of the outstanding bind is called with this result
BindResult(r, res) ==
  [r EXCEPT !.ops[Len(r.ops)].res = res]

\* "Search for the user." up to the await of search(): the filter is
\* rendered from this._searchFilter, then the search is issued
SearchStep(r) ==
  IF ~IsSome(this_searchFilter)
  THEN Finally(r, Thrown("TypeError"))
  ELSE LET f == evalFilter(Get(this_searchFilter),
                           [n \in {S_name} |-> Get(r.username)])
       IN IF f.threw
          THEN Finally(r, Thrown("invalid variable"))
          ELSE [r EXCEPT !.pc = "search",
                         !.ops = Append(@, [op |-> "search",
                                            base |-> this_searchBase,
                                            scope |-> "sub",
                                            filter |-> f.value])]

\* BindStep without the await of the service bind: the search is issued
\* while the bind is outstanding
BindStep_NoAwait(r) ==
  IF IsSome(this_credentials)
  THEN SearchStep([r EXCEPT
         !.ops = Append(@, [op |-> "bind", site |-> "service",
                            dn |-> Get(this_credentials).dn,
                            password |-> Get(this_credentials).password,
                            res |-> "pending"])])
  ELSE SearchStep(r)

\* "Bind if necessary." up to the next await
BindStep(r) ==
  IF IsSome(this_credentials)
  THEN [r EXCEPT !.pc = "svcBind",
                 !.ops = Append(@, [op |-> "bind", site |-> "service",
                                    dn |-> Get(this_credentials).dn,
                                    password |-> Get(this_credentials).password,
                                    res |-> "pending"])]
  ELSE SearchStep(r)

\* LoopFrom with an error of its own for an empty search result
LoopFrom_NotFound(r, i) ==
  IF Len(r.entries) = 0
  THEN Finally(r, Thrown("no such user"))
  ELSE IF i > Len(r.entries)
  THEN Finally(r, ReturnNull)
  ELSE [r EXCEPT !.pc = "entryBind",
                 !.idx = i,
                 !.ops = Append(@, [op |-> "bind", site |-> "entry",
                                    dn |-> r.entries[i],
                                    password |-> Get(r.password),
                                    res |-> "pending"])]

\* LoopFrom stopping one entry early
LoopFrom_OffByOne(r, i) ==
  IF i >= Len(r.entries)
  THEN Finally(r, ReturnNull)
  ELSE [r EXCEPT !.pc = "entryBind",
                 !.idx = i,
                 !.ops = Append(@, [op |-> "bind", site |-> "entry",
                                    dn |-> r.entries[i],
                                    password |-> Get(r.password),
                                    res |-> "pending"])]

\* for (const entry of entries) from entry i on, up to the next await
LoopFrom(r, i) ==
  IF i > Len(r.entries)
  THEN Finally(r, ReturnNull)
  ELSE [r EXCEPT !.pc = "entryBind",
                 !.idx = i,
                 !.ops = Append(@, [op |-> "bind", site |-> "entry",
                                    dn |-> r.entries[i],
                                    password |-> Get(r.password),
                                    res |-> "pending"])]

\* test({ username, password }) calls _authenticate({ username, password }):
\* the guard, createClient(this._clientOpts), up to the await of 'connect'.
\* (A direct call of _authenticate is the same call without the chained
\* then-callback: its outcome is the result field.)
AuthStart(c, username, password) ==
  /\ call[c].pc = "idle"
  /\ \A d \in Calls : d < c => call[d].pc # "idle"
  /\ LET r == [call[c] EXCEPT
                 !.username = username,
                 !.password = password,
                 !.atStart = [clientOpts |-> this_clientOpts,
                              credentials |-> this_credentials,
                              searchBase |-> this_searchBase,
                              searchFilter |-> this_searchFilter]]
     IN call' = [call EXCEPT ![c] =
          IF username = None \/ password = None
          THEN Settle(r, ReturnNull)
          ELSE IF this_clientOpts = 0
          THEN Settle(r, Thrown("TypeError"))
          ELSE [r EXCEPT !.pc = "connect",
                         !.client = this_clientOpts,
                         !.ops = <<[op |-> "connect",
                                    url |-> Get(heap[this_clientOpts]).url]>>]]
  /\ UNCHANGED <<this_clientOpts, this_credentials, this_searchBase,
                 this_searchFilter, heap, cfg>>

Provider == <<this_clientOpts, this_credentials, this_searchBase,
              this_searchFilter, heap, cfg>>

\* the client emits 'connect'
ConnectOk(c) ==
  /\ call[c].pc = "connect"
  /\ call' = [call EXCEPT ![c] = BindStep(call[c])]
  /\ UNCHANGED Provider

\* the client emits 'error' while connecting
ConnectError(c) ==
  /\ call[c].pc = "connect"
  /\ call' = [call EXCEPT ![c] = Finally(call[c], Thrown("connect"))]
  /\ UNCHANGED Provider

\* the service bind succeeds
SvcBindOk(c) ==
  /\ call[c].pc = "svcBind"
  /\ call' = [call EXCEPT ![c] = SearchStep(BindResult(call[c], "ok"))]
  /\ UNCHANGED Provider

\* SvcBindFail with the error swallowed: the call goes on to the search
SvcBindFail_Swallowed(c, why) ==
  /\ call[c].pc = "svcBind"
  /\ call' = [call EXCEPT ![c] = SearchStep(BindResult(call[c], why))]
  /\ UNCHANGED Provider

\* the service bind fails
SvcBindFail(c, why) ==
  /\ call[c].pc = "svcBind"
  /\ call' = [call EXCEPT ![c] =
       Finally(BindResult(call[c], why), Thrown(why))]
  /\ UNCHANGED Provider

\* search() calls back with the response: the searchEntry handler is
\* registered and the call awaits 'end'
SearchResponse(c) ==
  /\ call[c].pc = "search"
  /\ call' = [call EXCEPT ![c].pc = "searchEnd"]
  /\ UNCHANGED Provider

\* search() calls back with an error
SearchCallFail(c) ==
  /\ call[c].pc = "search"
  /\ call' = [call EXCEPT ![c] = Finally(call[c], Thrown("search"))]
  /\ UNCHANGED Provider

\* SearchEntry with one entries array shared by the calls instead of a local
\* one: the entry is pushed for every call that is collecting entries
SearchEntry_Shared(c, dn) ==
  /\ call[c].pc = "searchEnd"
  /\ Len(call[c].entries) < MaxEntries
  /\ \A i \in DOMAIN call[c].entries : call[c].entries[i] # dn
  /\ call' = [d \in Calls |->
       IF d = c \/ (call[d].pc = "searchEnd" /\ Len(call[d].entries) < MaxEntries)
       THEN [call[d] EXCEPT !.entries = Append(@, dn)]
       ELSE call[d]]
  /\ UNCHANGED Provider

\* the response emits 'searchEntry' (the server sends each entry of the
\* directory at most once, in an order of its choosing)
SearchEntry(c, dn) ==
  /\ call[c].pc = "searchEnd"
  /\ Len(call[c].entries) < MaxEntries
  /\ \A i \in DOMAIN call[c].entries : call[c].entries[i] # dn
  /\ call' = [call EXCEPT ![c].entries = Append(@, dn)]
  /\ UNCHANGED Provider

\* the response emits 'error'
SearchError(c) ==
  /\ call[c].pc = "searchEnd"
  /\ call' = [call EXCEPT ![c] = Finally(call[c], Thrown("searchError"))]
  /\ UNCHANGED Provider

\* SearchEnd without the status test
SearchEnd_StatusIgnored(c, status) ==
  /\ call[c].pc = "searchEnd"
  /\ call' = [call EXCEPT ![c] =
       LoopFrom([call[c] EXCEPT !.status = Some(status)], 1)]
  /\ UNCHANGED Provider

\* the response emits 'end' with a status
SearchEnd(c, status) ==
  /\ call[c].pc = "searchEnd"
  /\ LET r == [call[c] EXCEPT !.status = Some(status)]
     IN call' = [call EXCEPT ![c] =
          IF status # 0
          THEN Finally(r, Thrown("status"))
          ELSE LoopFrom(r, 1)]
  /\ UNCHANGED Provider

\* EntryBindOk without the return: the loop goes on to the next entry
EntryBindOk_NoReturn(c) ==
  /\ call[c].pc = "entryBind"
  /\ call' = [call EXCEPT ![c] =
       LoopFrom(BindResult(call[c], "ok"), call[c].idx + 1)]
  /\ UNCHANGED Provider

\* the bind as the current entry succeeds: return { username }
EntryBindOk(c) ==
  /\ call[c].pc = "entryBind"
  /\ call' = [call EXCEPT ![c] =
       Finally(BindResult(call[c], "ok"),
               ReturnUser(Get(call[c].username)))]
  /\ UNCHANGED Provider

\* EntryBindFail with the return placed after the try/catch instead of
\* inside the try block
EntryBindFail_ReturnAfterCatch(c, why) ==
  /\ call[c].pc = "entryBind"
  /\ call' = [call EXCEPT ![c] =
       Finally(BindResult(call[c], why),
               ReturnUser(Get(call[c].username)))]
  /\ UNCHANGED Provider

\* the bind as the current entry fails: the catch logs it and the loop goes on
EntryBindFail(c, why) ==
  /\ call[c].pc = "entryBind"
  /\ call' = [call EXCEPT ![c] =
       LoopFrom(BindResult(call[c], why), call[c].idx + 1)]
  /\ UNCHANGED Provider

Next ==
  \/ \E k \in Cfgs, conf \in Confs : ConfigureStart(k, conf)
  \/ \E k \in Cfgs : ConfigureRead(k)
  \/ \E k \in Cfgs : ConfigureReadFail(k)
  \/ \E c \in Calls, username \in Usernames, password \in Passwords :
        AuthStart(c, username, password)
  \/ \E c \in Calls : ConnectOk(c)
  \/ \E c \in Calls : ConnectError(c)
  \/ \E c \in Calls : SvcBindOk(c)
  \/ \E c \in Calls, why \in BindFailures : SvcBindFail(c, why)
  \/ \E c \in Calls : SearchResponse(c)
  \/ \E c \in Calls : SearchCallFail(c)
  \/ \E c \in Calls, dn \in DNs : SearchEntry(c, dn)
  \/ \E c \in Calls : SearchError(c)
  \/ \E c \in Calls, status \in Statuses : SearchEnd(c, status)
  \/ \E c \in Calls : EntryBindOk(c)
  \/ \E c \in Calls, why \in BindFailures : EntryBindFail(c, why)

Spec == Init /\ [][Next]_vars

\* ------------------------------------------------------ a silent server
\* The peer stops answering while a bind or a search is outstanding: no
\* callback is called and no event is emitted any more.  The client options
\* built by configure set no timeout, so no timer of the client ends the
\* wait: the call stays suspended in its await.
Stall(c) ==
  /\ call[c].pc \in {"svcBind", "search", "searchEnd", "entryBind"}
  /\ call' = [call EXCEPT ![c].pc = "stalled"]
  /\ UNCHANGED Provider

\* the provider after configure(ConfA), no call started
InitStall ==
  /\ this_clientOpts = 1
  /\ this_credentials = ConfA.bind
  /\ this_searchBase = Some(ConfA.base)
  /\ this_searchFilter = Some(searchFilterOf(ConfA))
  /\ heap = [k \in Cfgs |-> IF k = 1 THEN Some(newClientOpts(ConfA)) ELSE None]
  /\ cfg = [k \in Cfgs |->
              IF k = 1 THEN [pc |-> "done", conf |-> Some(ConfA)]
              ELSE [pc |-> "idle", conf |-> None]]
  /\ call = [c \in Calls |->
       [pc |-> "idle", username |-> None,
        password |-> None, client |-> 0, entries |-> <<>>,
        status |-> None, idx |-> 0,
        ops |-> <<>>, unbinds |-> 0, result |-> Pending,
        testResult |-> Pending,
        atStart |-> [clientOpts |-> 0, credentials |-> None,
                     searchBase |-> None, searchFilter |-> None]]]

\* the events and callbacks the client delivers to call c
Delivery(c) ==
  \/ ConnectOk(c)
  \/ ConnectError(c)
  \/ SvcBindOk(c)
  \/ \E why \in BindFailures : SvcBindFail(c, why)
  \/ SearchResponse(c)
  \/ SearchCallFail(c)
  \/ \E dn \in DNs : SearchEntry(c, dn)
  \/ SearchError(c)
  \/ \E status \in Statuses : SearchEnd(c, status)
  \/ EntryBindOk(c)
  \/ \E why \in BindFailures : EntryBindFail(c, why)

NextStall ==
  \/ \E c \in Calls, username \in Usernames, password \in Passwords :
        AuthStart(c, username, password)
  \/ \E c \in Calls : Delivery(c)
  \/ \E c \in Calls : Stall(c)

\* fair transport: an event the client has to deliver is delivered
SpecStall ==
  InitStall /\ [][NextStall]_vars /\ \A c \in Calls : WF_vars(Delivery(c))

\* ----------------------------------------------- rendering of the filter
\* Filter templates built from segments: a literal text or a placeholder
\* {{name}} of a variable.
Literal(text) == [placeholder |-> FALSE, text |-> text]
Placeholder(name) == [placeholder |-> TRUE, text |-> name]
Segments ==
  {Literal(<<"(", "u", "=">>), Literal(<<")">>),
   Placeholder(S_name), Placeholder(S_group), Placeholder(S_constructor)}
SegmentSeqs == UNION {[1..n -> Segments] : n \in 1..MaxSegments}

RECURSIVE TemplateOf(_)
TemplateOf(segs) ==
  IF segs = <<>> THEN <<>>
  ELSE (IF Head(segs).placeholder
        THEN <<"{", "{">> \o Head(segs).text \o <<"}", "}">>
        ELSE Head(segs).text) \o TemplateOf(Tail(segs))

Templates == {TemplateOf(segs) : segs \in SegmentSeqs}

RenderUsernames ==
  {<<"a">>, <<"a", "*">>, <<"(", ")">>, <<"\\">>, <<"{", "{", "a", "}", "}">>}

\* the configuration object with filter template t
RenderConf(t) ==
  [uri |-> "ldap://r", base |-> "dc=r", bind |-> None, filter |-> Some(t),
   checkCertificate |-> None, certificateAuthorities |-> None]

\* The provider after configure(RenderConf(t)), and every call after
\* _authenticate({ username, password: 'secret' }) has created its client and
\* awaits 'connect'.
InitRender ==
  \E t \in Templates :
    /\ this_clientOpts = 1
    /\ this_credentials = RenderConf(t).bind
    /\ this_searchBase = Some(RenderConf(t).base)
    /\ this_searchFilter = Some(searchFilterOf(RenderConf(t)))
    /\ heap = [k \in Cfgs |->
                 IF k = 1 THEN Some(newClientOpts(RenderConf(t))) ELSE None]
    /\ cfg = [k \in Cfgs |->
                IF k = 1 THEN [pc |-> "done", conf |-> Some(RenderConf(t))]
                ELSE [pc |-> "idle", conf |-> None]]
    /\ \E u \in [Calls -> RenderUsernames] :
         call = [c \in Calls |->
           [pc |-> "connect", username |-> Some(u[c]),
            password |-> Some("secret"), client |-> 1, entries |-> <<>>,
            status |-> None, idx |-> 0,
            ops |-> <<[op |-> "connect", url |-> RenderConf(t).uri]>>,
            unbinds |-> 0, result |-> Pending, testResult |-> Pending,
            atStart |-> [clientOpts |-> 1,
                         credentials |-> RenderConf(t).bind,
                         searchBase |-> Some(RenderConf(t).base),
                         searchFilter |-> Some(t)]]]

\* 'connect' is emitted: without service credentials the filter is rendered
\* and the search is issued
NextRender == \E c \in Calls : ConnectOk(c)

SpecRender == InitRender /\ [][NextRender]_vars

\* ------------------------------------------------------------- properties
Done(c) == call[c].pc = "done"
Started(c) == call[c].pc # "idle"
HasClient(c) == call[c].client # 0
OpPos(c, op) == {i \in DOMAIN call[c].ops : call[c].ops[i].op = op}
BindPos(c, site) ==
  {i \in OpPos(c, "bind") : call[c].ops[i].site = site}
EntryBindPos(c) == BindPos(c, "entry")
\* the number of per-entry binds issued up to and including position i
EntryBindRank(c, i) == Cardinality({j \in EntryBindPos(c) : j <= i})

\* C1: a call that created a client has invoked unbind on it exactly once
\* when it has settled, whatever the outcome, and not at all before; the
\* unbind is the last operation of the call.  A call without client never
\* unbinds.
C1_UnbindExactlyOnce ==
  \A c \in Calls :
    /\ call[c].unbinds = Cardinality(OpPos(c, "unbind"))
    /\ call[c].unbinds = IF HasClient(c) /\ Done(c) THEN 1 ELSE 0
    /\ (HasClient(c) /\ Done(c)) =>
         call[c].ops[Len(call[c].ops)].op = "unbind"

C1_Witness ==
  \E c \in Calls :
    /\ Done(c) /\ HasClient(c)
    /\ call[c].result = Thrown("status")
    /\ Len(call[c].entries) >= 1
    /\ call[c].unbinds = 1

\* C2: when the bind as an entry succeeds, the call returns { username } with
\* the caller's username, that bind is the last one, and the binds made are
\* those of the entries up to that one, one per entry, in the returned order
\* (all before it having failed).
C2_FirstMatchWins ==
  \A c \in Calls : \A i \in EntryBindPos(c) :
    call[c].ops[i].res = "ok" =>
      /\ Done(c)
      /\ call[c].result = ReturnUser(Get(call[c].username))
      /\ \A j \in EntryBindPos(c) : j <= i
      /\ \A j \in EntryBindPos(c) :
           /\ call[c].ops[j].dn = call[c].entries[EntryBindRank(c, j)]
           /\ call[c].ops[j].password = Get(call[c].password)
           /\ j < i => call[c].ops[j].res \in BindFailures
      /\ EntryBindRank(c, i) <= Len(call[c].entries)

C2_Witness ==
  \E c \in Calls :
    /\ Done(c)
    /\ Len(call[c].entries) = 2
    /\ Cardinality(EntryBindPos(c)) = 1
    /\ \E i \in EntryBindPos(c) : call[c].ops[i].res = "ok"
    /\ call[c].result.kind = "value"

\* C3: when the search ended with success status and N entries, and every
\* bind as an entry was rejected, the settled call has returned null after
\* exactly N binds, the k-th as the k-th entry.
C3_Exhaustion ==
  \A c \in Calls :
    ( /\ Done(c)
      /\ call[c].status = Some(0)
      /\ \A i \in EntryBindPos(c) : call[c].ops[i].res = "rejected" ) =>
        /\ call[c].result = ReturnNull
        /\ Cardinality(EntryBindPos(c)) = Len(call[c].entries)
        /\ \A i \in EntryBindPos(c) :
             call[c].ops[i].dn = call[c].entries[EntryBindRank(c, i)]

C3_Witness ==
  \E c \in Calls :
    /\ Done(c)
    /\ call[c].status = Some(0)
    /\ Len(call[c].entries) = 2
    /\ Cardinality(EntryBindPos(c)) = 2
    /\ \A i \in EntryBindPos(c) : call[c].ops[i].res = "rejected"
    /\ call[c].result = ReturnNull

\* C4: a call whose username or password is absent, or whose password is the
\* empty string, creates no client, issues no operation and returns null.
C4_CredentialGuard ==
  \A c \in Calls :
    ( /\ Started(c)
      /\ \/ call[c].username = None
         \/ call[c].password = None
         \/ call[c].password = Some("") ) =>
        /\ ~HasClient(c)
        /\ call[c].ops = <<>>
        /\ call[c].result = ReturnNull

\* C5: when the bind as an entry fails with a transport failure, the call
\* settles with an error and issues no further bind.
C5_TransportFailureIsFatal ==
  \A c \in Calls : \A i \in EntryBindPos(c) :
    call[c].ops[i].res = "transport" =>
      /\ Done(c)
      /\ call[c].result.kind = "error"
      /\ \A j \in EntryBindPos(c) : j <= i

\* C6: when the service bind is rejected, the call settles with an error,
\* has issued neither a search nor a bind as an entry, and has unbound.
C6_ServiceBindRejected ==
  \A c \in Calls : \A i \in BindPos(c, "service") :
    call[c].ops[i].res = "rejected" =>
      /\ Done(c)
      /\ call[c].result.kind = "error"
      /\ call[c].testResult.kind = "error"
      /\ OpPos(c, "search") = {}
      /\ EntryBindPos(c) = {}
      /\ call[c].unbinds = 1

C6_Witness ==
  \E c \in Calls : \E i \in BindPos(c, "service") :
    /\ call[c].ops[i].res = "rejected"
    /\ call[c].ops[i].dn = "svcA"
    /\ Done(c)
    /\ call[c].result = Thrown("rejected")

\* C7: when the search ends with a non-zero status, the call settles with an
\* error and binds as none of the entries delivered before.
C7_SearchStatusIsFatal ==
  \A c \in Calls :
    (IsSome(call[c].status) /\ call[c].status # Some(0)) =>
      /\ Done(c)
      /\ call[c].result.kind = "error"
      /\ EntryBindPos(c) = {}

C7_Witness ==
  \E c \in Calls :
    /\ call[c].status = Some(32)
    /\ Len(call[c].entries) = 2
    /\ Done(c)
    /\ call[c].result.kind = "error"

\* C8: for a settled call, test rejects with 'could not authenticate user'
\* when _authenticate returned null, which is what _authenticate does (it
\* does not throw) when the search succeeded and no entry accepted the
\* password; and test resolves exactly when _authenticate returned a user.
C8_TestSurfacesFailure ==
  \A c \in Calls : Done(c) =>
    /\ ( /\ call[c].status = Some(0)
         /\ \A i \in EntryBindPos(c) : call[c].ops[i].res # "ok" ) =>
           /\ call[c].result = ReturnNull
           /\ call[c].testResult = Thrown("could not authenticate user")
    /\ call[c].result = ReturnNull =>
         call[c].testResult = Thrown("could not authenticate user")
    /\ call[c].testResult.kind = "resolved" <=> call[c].result.kind = "value"

C8_Witness ==
  \E c \in Calls :
    /\ Done(c)
    /\ call[c].status = Some(0)
    /\ Len(call[c].entries) >= 1
    /\ \A i \in EntryBindPos(c) : call[c].ops[i].res = "rejected"
    /\ call[c].result = ReturnNull
    /\ call[c].testResult.kind = "error"

\* C9: every operation of a call uses the configuration that was in effect
\* when the call started: the connection goes to the url of the options of
\* then, a service bind is made exactly with the credentials of then, and the
\* search uses the base and the filter template of then.
C9_InFlightKeepsConfiguration ==
  \A c \in Calls : \A i \in DOMAIN call[c].ops :
    LET o == call[c].ops[i]
        was == call[c].atStart
    IN /\ o.op = "connect" => o.url = Get(heap[was.clientOpts]).url
       /\ (o.op = "bind" /\ o.site = "service") =>
            /\ IsSome(was.credentials)
            /\ o.dn = Get(was.credentials).dn
            /\ o.password = Get(was.credentials).password
       /\ o.op = "search" =>
            /\ o.base = was.searchBase
            /\ IsSome(was.searchFilter)
            /\ o.filter = evalFilter(Get(was.searchFilter),
                                     [n \in {S_name} |-> Get(call[c].username)]).value
            /\ IsSome(was.credentials) => BindPos(c, "service") # {}

\* C10: the options object of every configure call has rejectUnauthorized
\* true exactly when its checkCertificate is true or absent; and a configure
\* call that completes leaves as search filter its filter, or
\* (uid={{name}}) when it has none.
C10_Defaults ==
  /\ [](\A k \in Cfgs : cfg[k].pc # "idle" =>
          Get(heap[k]).tlsOptions.rejectUnauthorized =
            (Get(cfg[k].conf).checkCertificate \in {None, Some(TRUE)}))
  /\ [][\A k \in Cfgs : (cfg[k].pc # "done" /\ cfg'[k].pc = "done") =>
          this_searchFilter' =
            IF IsSome(Get(cfg'[k].conf).filter)
            THEN Get(cfg'[k].conf).filter
            ELSE Some(<<"(", "u", "i", "d", "=", "{", "{", "n", "a", "m", "e",
                        "}", "}", ")">>)]_vars

C10_Witness ==
  \E k \in Cfgs :
    /\ cfg[k].pc = "done"
    /\ Get(cfg[k].conf).filter = None
    /\ Get(cfg[k].conf).checkCertificate = None
    /\ this_clientOpts = k
    /\ Get(heap[k]).tlsOptions.rejectUnauthorized = TRUE
    /\ this_searchFilter = Some(<<"(", "u", "i", "d", "=", "{", "{", "n", "a",
                                  "m", "e", "}", "}", ")">>)

\* C11: the operations of a call are issued in the order connect, service
\* bind (at most one), search (at most one), binds as the entries, unbind.
\* Nothing is issued before 'connect'; the search is issued only after the
\* service bind, if there is one, succeeded; a bind as an entry is issued
\* only after the search ended with success, the k-th one as the k-th entry
\* returned and after the binds before it completed; and an operation that
\* has not completed is the last one issued, so no two are outstanding.
C11_StrictSequence ==
  \A c \in Calls :
    LET ops == call[c].ops
        n == Len(ops)
    IN /\ ops # <<>> => OpPos(c, "connect") = {1}
       /\ call[c].pc = "connect" => n = 1
       /\ Cardinality(BindPos(c, "service")) <= 1
       /\ Cardinality(OpPos(c, "search")) <= 1
       /\ \A i \in OpPos(c, "search") :
            /\ \A j \in BindPos(c, "service") : j < i /\ ops[j].res = "ok"
            /\ \A j \in EntryBindPos(c) : i < j
            /\ (call[c].status = None /\ ~Done(c)) => i = n
       /\ \A i \in EntryBindPos(c) :
            /\ call[c].status = Some(0)
            /\ OpPos(c, "search") # {}
            /\ EntryBindRank(c, i) <= Len(call[c].entries)
            /\ ops[i].dn = call[c].entries[EntryBindRank(c, i)]
       /\ \A i \in OpPos(c, "bind") :
            IF ops[i].res = "pending"
            THEN i = n /\ call[c].pc \in {"svcBind", "entryBind"}
            ELSE i < n
       /\ \A i \in OpPos(c, "unbind") : i = n /\ Done(c)

C11_Witness ==
  \E c \in Calls :
    /\ call[c].pc = "entryBind"
    /\ call[c].idx = 2
    /\ BindPos(c, "service") # {}
    /\ Len(call[c].ops) = 5
    /\ call[c].entries = <<"uid=a2", "uid=a1">>
    /\ call[c].ops[5].dn = "uid=a1"

\* what the responses a call itself received determine as its outcome:
\* a user when a bind as one of its entries succeeded, null when its search
\* ended with success and none did, an error otherwise
OwnOutcomeKind(c) ==
  IF \E i \in EntryBindPos(c) : call[c].ops[i].res = "ok" THEN "value"
  ELSE IF call[c].status = Some(0) THEN "null"
  ELSE "error"

\* C12: concurrent calls are independent.  A step that changes a call
\* changes no other call and nothing of the provider, so no call operates on
\* or closes the client of another; each call that created a client unbinds
\* its own client once; and the outcome of a settled call is the one the
\* responses to its own operations determine, whatever the other calls did.
C12_CallsIndependent ==
  /\ [][\A c \in Calls : call'[c] # call[c] =>
          /\ \A d \in Calls \ {c} : call'[d] = call[d]
          /\ Provider' = Provider]_vars
  /\ [](\A c \in Calls : (Done(c) /\ HasClient(c)) =>
          /\ call[c].unbinds = 1
          /\ call[c].result.kind = OwnOutcomeKind(c)
          /\ call[c].result.kind = "value" =>
               call[c].result.username = Get(call[c].username))

C12_Witness ==
  /\ call[1].pc = "entryBind" /\ call[2].pc = "entryBind"
  /\ call[1].entries = <<"uid=a1">>
  /\ call[2].entries = <<"uid=a2", "uid=a1">>
  /\ call[2].idx = 2
  /\ call[1].atStart = call[2].atStart

\* C13: options of a configure call that failed on its CA files are not the
\* active options: no call creates its client from them.
C13_NoPartialTrustStore ==
  [][\A c \in Calls :
       (call[c].pc = "idle" /\ call'[c].pc = "connect") =>
         cfg[call'[c].client].pc # "failed"]_vars

\* the segment sequences a template is built from
SegmentsOf(template) == {segs \in SegmentSeqs : TemplateOf(segs) = template}
OnlyName(segs) ==
  \A i \in DOMAIN segs : segs[i].placeholder => segs[i].text = S_name
\* s contains a {{...}} token
HasToken(s) == \E i \in 1..Len(s) : VarReMatchEnd(s, i) # 0
\* the template with every placeholder replaced by text
RECURSIVE Replaced(_, _)
Replaced(segs, text) ==
  IF segs = <<>> THEN <<>>
  ELSE (IF Head(segs).placeholder THEN text ELSE Head(segs).text)
       \o Replaced(Tail(segs), text)
\* the escaped form of each username of RenderUsernames
EscapedUsername(u) ==
  CASE u = <<"a", "*">> -> <<"a", "\\", "2", "a">>
    [] u = <<"(", ")">> -> <<"\\", "2", "8", "\\", "2", "9">>
    [] u = <<"\\">> -> <<"\\", "5", "c">>
    [] OTHER -> u

\* C14: when the filter template references a variable other than name, the
\* call that reaches the rendering settles with an error, has issued no
\* search and no bind as an entry, and has unbound.
C14_UnknownVariableFails ==
  \A c \in Calls : call[c].pc # "connect" =>
    \A segs \in SegmentsOf(Get(this_searchFilter)) :
      ~OnlyName(segs) =>
        /\ Done(c)
        /\ call[c].result.kind = "error"
        /\ OpPos(c, "search") = {}
        /\ EntryBindPos(c) = {}
        /\ call[c].unbinds = 1

C15_ServiceBindFollowsConfiguration ==
  \A c \in Calls : \A i \in OpPos(c, "search") :
    LET was == call[c].atStart.credentials
    IN IF IsSome(was)
       THEN \E j \in BindPos(c, "service") :
              /\ j < i
              /\ call[c].ops[j].dn = Get(was).dn
              /\ call[c].ops[j].password = Get(was).password
              /\ call[c].ops[j].res = "ok"
       ELSE \A j \in OpPos(c, "bind") : i < j

\* the search of call c ended with success and every entry it returned was
\* tried and rejected the password
AllRejected(c) ==
  /\ call[c].status = Some(0)
  /\ Cardinality(EntryBindPos(c)) = Len(call[c].entries)
  /\ \A i \in EntryBindPos(c) : call[c].ops[i].res = "rejected"

\* C17: of two settled calls with the same username and password, one whose
\* search returned no entry and one whose search returned entries that all
\* rejected the password have the same outcome of _authenticate and the same
\* outcome of test.
C17_Indistinguishable ==
  \A c, d \in Calls :
    ( /\ Done(c) /\ Done(d)
      /\ call[c].username = call[d].username
      /\ call[c].password = call[d].password
      /\ call[c].status = Some(0) /\ call[c].entries = <<>>
      /\ call[d].entries # <<>> /\ AllRejected(d) )
    => /\ call[c].result = call[d].result
       /\ call[c].testResult = call[d].testResult

C17_Witness ==
  \E c, d \in Calls :
    /\ Done(c) /\ Done(d)
    /\ call[c].username = call[d].username
    /\ call[c].password = call[d].password
    /\ call[c].status = Some(0) /\ call[c].entries = <<>>
    /\ Len(call[d].entries) = MaxEntries /\ AllRejected(d)
    /\ call[c].result = ReturnNull
    /\ call[d].testResult = Thrown("could not authenticate user")

\* C19: a call returns a user only when its search ended with success and,
\* after that search, a bind as the DN of one of the entries the search
\* returned, with the password the caller supplied, succeeded; the username
\* returned is the one the caller supplied.
C19_SuccessIsSound ==
  \A c \in Calls :
    call[c].result.kind = "value" =>
      /\ call[c].result.username = Get(call[c].username)
      /\ call[c].status = Some(0)
      /\ \E i \in EntryBindPos(c) :
           /\ call[c].ops[i].res = "ok"
           /\ \E e \in DOMAIN call[c].entries :
                call[c].entries[e] = call[c].ops[i].dn
           /\ call[c].ops[i].password = Get(call[c].password)
           /\ \E s \in OpPos(c, "search") : s < i

C19_Witness ==
  \E c \in Calls :
    /\ call[c].result.kind = "value"
    /\ BindPos(c, "service") # {}
    /\ Cardinality(EntryBindPos(c)) = 2
    /\ \E d \in Calls \ {c} :
         /\ Done(d) /\ call[d].result.kind # "value"
         /\ \E i \in BindPos(d, "service") : call[d].ops[i].res = "ok"
         /\ OpPos(d, "search") # {}

\* C18: every call that has started eventually settles, and a call that
\* created a client has then unbound it, also when the server stops
\* answering.
C18_EventuallySettled ==
  \A c \in Calls :
    Started(c) ~> (Done(c) /\ (HasClient(c) => call[c].unbinds = 1))

\* C20: a call that starts while a configure call is suspended reading its
\* CA files creates its client from the options of a completed configure
\* call, and the stored credentials, search base and filter are those of the
\* same configure call.
C20_ConfigureAtomic ==
  [][\A c \in Calls :
       ( /\ call[c].pc = "idle" /\ call'[c].pc = "connect"
         /\ \E j \in Cfgs : cfg[j].pc = "reading" )
       => LET k == call'[c].client
              conf == Get(cfg[k].conf)
          IN /\ cfg[k].pc = "done"
             /\ this_credentials = conf.bind
             /\ this_searchBase = Some(conf.base)
             /\ this_searchFilter = Some(searchFilterOf(conf))]_vars
====
